---- MODULE Spec2Model ----
(***************************************************************************)
(* The adaptive benchmark engine of src/lib/async-bench.ts: benchmark(),   *)
(* nextIterationCount() and getTimings().                                  *)
(*                                                                         *)
(* Time is counted in clock ticks, TicksPerSecond ticks to the second, so  *)
(* time() is the integer now.  A number that is not a whole count of ticks *)
(* (a mean, a sample of an aggregated cycle) is an exact fraction          *)
(* [num, den] in lowest terms; 0/0 stands for NaN.  The relative margin of *)
(* error is kept in thousandths, rounded down, or is Infinity.             *)
(***************************************************************************)
EXTENDS Integers, Sequences, FiniteSets, TLC

(***************************************************************************)
(* Program constants                                                       *)
(***************************************************************************)
\* TARGET_RELATIVE_MARGIN_OF_ERROR = 0.02, in thousandths
TARGET_RELATIVE_MARGIN_OF_ERROR_MILLI == 20
\* DEFAULT_MAX_TIME, in seconds
DEFAULT_MAX_TIME == 30
INITIAL_ITERATION_COUNT == 1
\* the cap of errorFactor, Math.min(rme + 1, 10)
MAX_ERROR_FACTOR == 10
\* above this count a cycle is recorded in aggregated form (one sample)
DETAIL_LIMIT == 10000
INCLUDE_INITIAL_SETUP_IN_MAX_TIME == FALSE

(***************************************************************************)
(* Bounds of the model                                                     *)
(***************************************************************************)
\* resolution of the clock
TicksPerSecond == 10
\* the longest run explored, in operation calls
MaxCalls == 8
\* the longest sample array handed to the estimator on its own
MaxSamples == 32
\* the most results merged by BenchmarkResult.add
MaxResults == 3
\* the longest list of factories or configurations handed to a suite runner
MaxFactories == 5

Seconds(s) == s * TicksPerSecond
\* TARGET_CYCLE_TIME = DEFAULT_MAX_TIME / 10, in ticks
TARGET_CYCLE_TIME == Seconds(DEFAULT_MAX_TIME) \div 10

(***************************************************************************)
(* Arithmetic                                                              *)
(***************************************************************************)
Abs(x) == IF x < 0 THEN -x ELSE x
Min(a, b) == IF a <= b THEN a ELSE b

RECURSIVE Gcd(_, _)
Gcd(a, b) == IF b = 0 THEN a ELSE Gcd(b, a % b)

Lcm(a, b) == (a \div Gcd(a, b)) * b

\* the fraction n/d in lowest terms with a positive denominator; x/0 is NaN
Rat(n, d) ==
    IF d = 0 THEN [num |-> 0, den |-> 0]
    ELSE LET g == Gcd(Abs(n), Abs(d))
             s == IF d < 0 THEN -1 ELSE 1
         IN [num |-> s * (n \div g), den |-> s * (d \div g)]

NaN == Rat(0, 0)
\* what a call that returns no value evaluates to: in arithmetic it is NaN
undefined == [num |-> 0, den |-> 0, undefined |-> TRUE]
IsNaN(r) == r.den = 0
Whole(n) == Rat(n, 1)

RatAdd(a, b) ==
    IF IsNaN(a) \/ IsNaN(b) THEN NaN
    ELSE Rat(a.num * b.den + b.num * a.den, a.den * b.den)

\* a - b
RatSub(a, b) ==
    IF IsNaN(a) \/ IsNaN(b) THEN NaN
    ELSE Rat(a.num * b.den - b.num * a.den, a.den * b.den)

\* a / n for an integer n
RatDivInt(a, n) == IF IsNaN(a) THEN NaN ELSE Rat(a.num, a.den * n)

\* floor(p / q), q # 0
FloorDiv(p, q) == IF q > 0 THEN p \div q ELSE (-p) \div (-q)

\* Math.ceil(p / q) in the place of Math.round(p / q)
MathRound_ceil(p, q) == - FloorDiv(- p, q)

\* Math.round(p / q): the nearest integer, a tie going up
MathRound(p, q) == FloorDiv(2 * p + q, 2 * q)

\* floor(a * b / d) and the remainder, for a, b >= 0 < d, without forming a * b
RECURSIVE MulDivRem(_, _, _)
MulDivRem(a, b, d) ==
    IF b = 0 THEN [q |-> 0, r |-> 0]
    ELSE LET h  == MulDivRem(a, b \div 2, d)
             r2 == 2 * h.r
             q2 == 2 * h.q + (r2 \div d)
             r3 == (r2 % d) + (IF b % 2 = 1 THEN a % d ELSE 0)
             q3 == q2 + (IF b % 2 = 1 THEN a \div d ELSE 0) + (r3 \div d)
         IN [q |-> q3, r |-> r3 % d]

MulDivFloor(a, b, d) == MulDivRem(a, b, d).q

\* floor(sqrt(q)), by bisection on lo <= root < hi
RECURSIVE SqrtBetween(_, _, _)
SqrtBetween(lo, hi, q) ==
    IF hi - lo <= 1 THEN lo
    ELSE LET mid == (lo + hi) \div 2
         IN IF mid * mid <= q THEN SqrtBetween(mid, hi, q)
            ELSE SqrtBetween(lo, mid, q)

MathSqrtFloor(q) == SqrtBetween(0, 46340, q)

(***************************************************************************)
(* Statistics estimator                                                    *)
(***************************************************************************)
\* the t-table, in thousandths, rows '1' to '30'
tTableRows ==
    << 12706, 4303, 3182, 2776, 2571, 2447, 2365, 2306, 2262, 2228,
       2201, 2179, 2160, 2145, 2131, 2120, 2110, 2101, 2093, 2086,
       2080, 2074, 2069, 2064, 2060, 2056, 2052, 2048, 2045, 2042 >>

\* the row 'infinity'
tTableInfinity == 1960

\* tTable[Math.round(df) || 1] || tTable['infinity'], df = samples.length - 1
critical(n) ==
    LET df  == n - 1
        key == IF df = 0 THEN 1 ELSE df
    IN IF key \in DOMAIN tTableRows THEN tTableRows[key] ELSE tTableInfinity

RECURSIVE getSum(_)
getSum(arr) ==
    IF arr = <<>> THEN Whole(0)
    ELSE RatAdd(getSum(SubSeq(arr, 1, Len(arr) - 1)), arr[Len(arr)])

\* getSum(arr) / arr.length: NaN for no sample
getMean(arr) == RatDivInt(getSum(arr), Len(arr))

RECURSIVE CommonDen(_)
CommonDen(arr) ==
    IF arr = <<>> THEN 1
    ELSE Lcm(CommonDen(Tail(arr)), IF IsNaN(Head(arr)) THEN 1 ELSE Head(arr).den)

RECURSIVE SumScaled(_, _)
SumScaled(arr, L) ==
    IF arr = <<>> THEN 0
    ELSE Head(arr).num * (L \div Head(arr).den) + SumScaled(Tail(arr), L)

RECURSIVE SumSquaresScaled(_, _)
SumSquaresScaled(arr, L) ==
    IF arr = <<>> THEN 0
    ELSE LET x == Head(arr).num * (L \div Head(arr).den)
         IN x * x + SumSquaresScaled(Tail(arr), L)

Infinity == [inf |-> TRUE, milli |-> 0]
Finite(m) == [inf |-> FALSE, milli |-> m]

\* n * n * L * L * (the variance getStddev squares the root of), L the
\* common denominator of the samples: n * sum(x^2) - sum(x)^2
ScaledVariance(samples) ==
    LET L == CommonDen(samples)
        s == SumScaled(samples, L)
    IN Len(samples) * SumSquaresScaled(samples, L) - s * s

\* const rme = moe / mean || Infinity, with moe = sd / sqrt(n) * critical:
\* rme^2 = critical^2 * variance / (n * mean^2).  A sample that is no number
\* makes the mean NaN, and NaN || Infinity is Infinity.
relativeMarginOfError(samples) ==
    LET n == Len(samples)
        L == CommonDen(samples)
        s == SumScaled(samples, L)
        v == ScaledVariance(samples)
        c == critical(n)
    IN IF \E k \in DOMAIN samples : IsNaN(samples[k]) THEN Infinity
       ELSE IF n = 0 \/ s = 0 \/ v = 0 THEN Infinity
       ELSE IF s < 0 THEN Finite(-1 - MathSqrtFloor(MulDivFloor(c * c, v, n * s * s)))
       ELSE Finite(MathSqrtFloor(MulDivFloor(c * c, v, n * s * s)))

getTimings(samples) ==
    [ relativeMarginOfError |-> relativeMarginOfError(samples),
      meanTime              |-> getMean(samples),
      sampleCount           |-> Len(samples) ]

(***************************************************************************)
(* Configurations and the operations under test                            *)
(***************************************************************************)
\* an optional field of BenchmarkConfig: <<>> when left out, <<v>> when given
Undefined == <<>>
Given(v) == <<v>>

\* opt || dflt: the default stands in for undefined and for 0
OrDefault(opt, dflt) ==
    IF opt = Undefined THEN dflt
    ELSE IF opt[1] = 0 THEN dflt ELSE opt[1]

\* An operation is the set of durations, in ticks, one call of it can take
\* and return: one constant and two varying operations.
Operations == { {12}, {12, 13}, {50, 51} }
\* how long the hooks and the callback take, in ticks
BeforeAllTimes == {300}
BeforeTimes == {1}
OnCycleDoneTimes == {8}

\* maxTime, in seconds, and initialCount as §3 of the spec allows them
ValidMaxTimes == { Undefined, Given(5) }
ValidInitialCounts == { Undefined, Given(2) }
\* values the type allows and §7 calls configuration errors
InvalidMaxTimes == { Given(0), Given(-1) }
InvalidInitialCounts == { Given(0), Given(-1) }

ConfigsOver(maxTimes, initialCounts) ==
    [ fn           : Operations,
      fnReturns    : {TRUE},
      isSync       : BOOLEAN,
      before       : BOOLEAN,
      beforeAll    : BOOLEAN,
      onCycleDone  : BOOLEAN,
      maxTime      : maxTimes,
      initialCount : initialCounts ]

ValidConfigs == ConfigsOver(ValidMaxTimes, ValidInitialCounts)

\* A configuration error in one field, the other left out.  A synchronous
\* run with a negative count is left out: its cycles take no tick.
InvalidConfigs ==
    { c \in ConfigsOver(InvalidMaxTimes, {Undefined})
            \cup ConfigsOver({Undefined}, InvalidInitialCounts) :
        ~ (c.isSync /\ c.initialCount = Given(-1)) }

\* fn: () => Promise<number> | any.  The valid configurations with an
\* operation that completes without a return value.
NoReturnValueConfigs ==
    { [c EXCEPT !.fnReturns = FALSE] : c \in ValidConfigs }

IsValid(c) ==
    /\ c.maxTime = Undefined \/ c.maxTime[1] > 0
    /\ c.initialCount = Undefined \/ c.initialCount[1] > 0

(***************************************************************************)
(* Adaptive cycle scheduler                                                *)
(***************************************************************************)
\* maxTime with the configured budget not read
maxTime_alwaysDefault(c) == Seconds(DEFAULT_MAX_TIME)

\* const maxTime = state.config.maxTime || DEFAULT_MAX_TIME, in ticks
maxTime(c) == Seconds(OrDefault(c.maxTime, DEFAULT_MAX_TIME))

\* remainingTime with the time of the initial set-up charged to the budget
remainingTime_chargesSetUp(st) == maxTime(st.config) - st.elapsedTime

\* remainingTime with the elapsed time not taken off the budget
remainingTime_elapsedNotCounted(st) == maxTime(st.config)

\* remainingTime with the time of the initial set-up given back twice
remainingTime_givesBackTwice(st) ==
    maxTime(st.config) - st.elapsedTime + 2 * st.elapsedTimeForInitialSetUp

remainingTime(st) ==
    maxTime(st.config) - st.elapsedTime
        + (IF INCLUDE_INITIAL_SETUP_IN_MAX_TIME THEN 0
           ELSE st.elapsedTimeForInitialSetUp)

\* errorFactor = Math.min(rme + 1, 10), in thousandths
errorFactor(st) ==
    LET rme == st.timings.relativeMarginOfError
    IN IF rme.inf THEN MAX_ERROR_FACTOR * 1000
       ELSE Min(rme.milli + 1000, MAX_ERROR_FACTOR * 1000)

\* meanSetUpTime * state.cycles
setUpTimeOfCycles(st) ==
    st.elapsedTime - st.elapsedCycleGrossTime - st.elapsedTimeForInitialSetUp

\* targetIterationCount with the target net time not capped
targetIterationCount_notCapped(st) ==
    LET netN == remainingTime(st) * st.cycles - setUpTimeOfCycles(st)
        ef   == errorFactor(st)
    IN MathRound(netN * 1000 * st.iterationCount,
                 st.cycles * ef * st.elapsedCycleGrossTime)

\* The last lines of nextIterationCount, reached with state.cycles > 0:
\* Math.round(targetNetTime / grossMeanTimePerIteration)
targetIterationCount(st) ==
    LET \* remainingNetTime = remainingTime - meanSetUpTime, times state.cycles
        netN == remainingTime(st) * st.cycles - setUpTimeOfCycles(st)
        ef   == errorFactor(st)
        \* remainingNetTimeWithSafetyMargin = netN * 1000 / (cycles * ef)
        capped == netN * 1000 > TARGET_CYCLE_TIME * st.cycles * ef
        tNum == IF capped THEN TARGET_CYCLE_TIME ELSE netN * 1000
        tDen == IF capped THEN 1 ELSE st.cycles * ef
        \* grossMeanTimePerIteration = elapsedCycleGrossTime / iterationCount
    IN MathRound(tNum * st.iterationCount, tDen * st.elapsedCycleGrossTime)

\* nextIterationCount with the first count not read from the configuration
nextIterationCount_fixedFirstCount(st) ==
    IF st.cycles = 0 THEN INITIAL_ITERATION_COUNT
    ELSE IF remainingTime(st) <= 0 THEN 0
    ELSE IF ~ st.timings.relativeMarginOfError.inf
            /\ st.timings.relativeMarginOfError.milli
                   < TARGET_RELATIVE_MARGIN_OF_ERROR_MILLI THEN 0
    ELSE IF remainingTime(st) * st.cycles < setUpTimeOfCycles(st) THEN 0
    ELSE targetIterationCount(st)

nextIterationCount(st) ==
    IF st.cycles = 0
        THEN OrDefault(st.config.initialCount, INITIAL_ITERATION_COUNT)
    ELSE IF remainingTime(st) <= 0 THEN 0
    ELSE IF ~ st.timings.relativeMarginOfError.inf
            /\ st.timings.relativeMarginOfError.milli
                   < TARGET_RELATIVE_MARGIN_OF_ERROR_MILLI THEN 0
    ELSE IF remainingTime(st) * st.cycles < setUpTimeOfCycles(st) THEN 0
    ELSE targetIterationCount(st)

(***************************************************************************)
(* Single-benchmark runner: one call of benchmark(config, callbacks)       *)
(***************************************************************************)
VARIABLES
    config,          \* the BenchmarkConfig, and whether callbacks.onCycleDone is given
    now,             \* time() - startTime
    pc,              \* where benchmark() stands
    state,           \* BenchmarkState
    samples,
    cycleDetails,
    iterationCount,  \* the count of the cycle being run
    cycleStartTime,
    netTime,         \* of the cycle being run
    times,           \* of the cycle being run
    i,               \* the loop index of the cycle function
    result,          \* <<>> until benchmark() returns, then <<BenchmarkResult>>
    thrown,          \* what benchmark() is rejected with, "" when nothing
    calls,           \* what the run has invoked so far, in order
    reported,        \* the arguments onCycleDone was invoked with, in order
    arr,             \* the samples a caller hands to getTimings
    estimate,        \* <<>>, then what getTimings computed for arr
    results,         \* the BenchmarkResults merged so far, in order
    added,           \* <<>>, then what BenchmarkResult.add returned last
    suite            \* <<>>, or the locals of a suite runner

\* what belongs to the callers of the estimator, of BenchmarkResult.add and
\* to the suite runners: a run of benchmark() leaves it alone
outerVars == << arr, estimate, results, added, suite >>

runVars == << config, now, pc, state, samples, cycleDetails, iterationCount,
              cycleStartTime, netTime, times, i, result, thrown, calls, reported >>

vars == << runVars, outerVars >>

NoEstimate == arr = <<>> /\ estimate = <<>>
NoAdd == results = <<>> /\ added = <<>>
NoSuite == suite = <<>>

cycleVars == << iterationCount, cycleStartTime, netTime, times, i >>

\* one invocation: of what, with which count (before), returning which
\* duration (fn) or for which cycle (onCycleDone), and whether it completed
Call(what, arg) == [call |-> what, arg |-> arg, ok |-> TRUE]
FailedCall(what, arg) == [call |-> what, arg |-> arg, ok |-> FALSE]

OperationCalls == Len(SelectSeq(calls, LAMBDA c : c.call = "fn"))

\* const cycleFn = config.isSync ? cycleSync : iterationCount > 10000 ? cycle : cycleDetailed
cycleFn(c, count) ==
    IF c.isSync THEN "cycleSync"
    ELSE IF count > DETAIL_LIMIT THEN "cycle" ELSE "cycleDetailed"

InitOver(configs) ==
    /\ config \in configs
    /\ now = 0
    /\ pc = "beforeAll"
    /\ state = [ elapsedTime |-> 0, elapsedNetTime |-> Whole(0),
                 elapsedTimeForInitialSetUp |-> 0, cycles |-> 0,
                 iterationCount |-> 0, elapsedCycleGrossTime |-> 0,
                 config |-> config, timings |-> getTimings(<<>>) ]
    /\ samples = <<>>
    /\ cycleDetails = <<>>
    /\ iterationCount = 0
    /\ cycleStartTime = 0
    /\ netTime = Whole(0)
    /\ times = <<>>
    /\ i = 0
    /\ result = <<>>
    /\ thrown = ""
    /\ calls = <<>>
    /\ reported = <<>>
    /\ NoEstimate
    /\ NoAdd
    /\ NoSuite

Init == InitOver(ValidConfigs)

\* a rejection that is caught and dropped: the loop goes on
Throw_swallowed(what) ==
    /\ pc' = pc
    /\ thrown' = ""
    /\ UNCHANGED << config, state, samples, cycleDetails, cycleVars, result, reported >>
    /\ UNCHANGED outerVars

\* benchmark() is rejected: nothing of it runs any more
Throw(what) ==
    /\ pc' = "failed"
    /\ thrown' = what
    /\ UNCHANGED << config, state, samples, cycleDetails, cycleVars, result, reported >>
    /\ UNCHANGED outerVars

\* if (config.beforeAll) await config.beforeAll(); then the first state
BeforeAll ==
    /\ pc = "beforeAll"
    /\ \E t \in (IF config.beforeAll THEN BeforeAllTimes ELSE {0}) :
          /\ now' = now + t
          /\ state' = [state EXCEPT !.elapsedTimeForInitialSetUp = now + t]
    /\ calls' = IF config.beforeAll THEN Append(calls, Call("beforeAll", 0)) ELSE calls
    /\ pc' = "schedule"
    /\ UNCHANGED << config, samples, cycleDetails, cycleVars, result, thrown, reported >>
    /\ UNCHANGED outerVars

BeforeAllFails ==
    /\ pc = "beforeAll"
    /\ config.beforeAll
    /\ \E t \in BeforeAllTimes : now' = now + t
    /\ calls' = Append(calls, FailedCall("beforeAll", 0))
    /\ Throw("beforeAll")

BenchmarkResult ==
    [ meanTime              |-> state.timings.meanTime,
      relativeMarginOfError |-> state.timings.relativeMarginOfError,
      cycles                |-> Len(cycleDetails),
      iterationCount        |-> state.iterationCount,
      elapsedTime           |-> state.elapsedTime,
      setUpTime             |-> RatSub(Whole(state.elapsedTime), state.elapsedNetTime),
      cycleDetails          |-> cycleDetails,
      samples               |-> samples ]

\* the head of the loop when the scheduler says 0: break and return the result
ScheduleStop ==
    /\ pc = "schedule"
    /\ nextIterationCount(state) = 0
    /\ result' = << BenchmarkResult >>
    /\ pc' = "done"
    /\ UNCHANGED << config, now, state, samples, cycleDetails, cycleVars,
                    thrown, calls, reported >>
    /\ UNCHANGED outerVars

\* the head of the loop otherwise: the cycle function is entered
ScheduleCycle ==
    /\ pc = "schedule"
    /\ nextIterationCount(state) # 0
    /\ iterationCount' = nextIterationCount(state)
    /\ cycleStartTime' = now
    /\ netTime' = Whole(0)
    /\ times' = <<>>
    /\ i' = 0
    /\ pc' = "before"
    /\ UNCHANGED << config, now, state, samples, cycleDetails, result,
                    thrown, calls, reported >>
    /\ UNCHANGED outerVars

\* if (config.before) await config.before({ count }); cycleDetailed then
\* allocates Array(count), a RangeError for a negative count
Before ==
    /\ pc = "before"
    /\ \E t \in (IF config.before THEN BeforeTimes ELSE {0}) : now' = now + t
    /\ calls' = IF config.before
                  THEN Append(calls, Call("before", iterationCount)) ELSE calls
    /\ IF cycleFn(config, iterationCount) = "cycleDetailed" /\ iterationCount < 0
         THEN Throw("RangeError")
         ELSE /\ pc' = "fn"
              /\ UNCHANGED << config, state, samples, cycleDetails, cycleVars,
                              result, thrown, reported >>
              /\ UNCHANGED outerVars

BeforeFails ==
    /\ pc = "before"
    /\ config.before
    /\ \E t \in BeforeTimes : now' = now + t
    /\ calls' = Append(calls, FailedCall("before", iterationCount))
    /\ Throw("before")

\* what a call of config.fn() that took d ticks returns
duration(c, d) == IF c.fnReturns THEN Whole(d) ELSE undefined

\* one turn of for (let i = 0; i < count; i++): a call of config.fn() that
\* takes d ticks; netTime is getSum(times) in cycleDetailed
Fn ==
    /\ pc = "fn"
    /\ i < iterationCount
    /\ OperationCalls < MaxCalls
    /\ \E d \in config.fn :
          /\ now' = now + d
          /\ netTime' = RatAdd(netTime, duration(config, d))
          /\ times' = IF cycleFn(config, iterationCount) = "cycleDetailed"
                        THEN Append(times, duration(config, d)) ELSE times
          /\ calls' = Append(calls, Call("fn", d))
    /\ i' = i + 1
    /\ UNCHANGED << config, pc, state, samples, cycleDetails, iterationCount,
                    cycleStartTime, result, thrown, reported >>
    /\ UNCHANGED outerVars

FnFails ==
    /\ pc = "fn"
    /\ i < iterationCount
    /\ OperationCalls < MaxCalls
    /\ \E d \in config.fn :
          /\ now' = now + d
          /\ calls' = Append(calls, FailedCall("fn", d))
    /\ Throw("fn")

Reverse(seq) == [k \in 1..Len(seq) |-> seq[Len(seq) + 1 - k]]

\* the times of a cycle with the latest duration first
cycleTimes_latestFirst ==
    IF cycleFn(config, iterationCount) = "cycleDetailed" THEN Reverse(times)
    ELSE << RatDivInt(netTime, iterationCount) >>

\* the times of a cycle with the net time of an aggregated cycle not divided
cycleTimes_netTimeNotDivided ==
    IF cycleFn(config, iterationCount) = "cycleDetailed" THEN times
    ELSE << netTime >>

\* what the cycle function returns as times
cycleTimes ==
    IF cycleFn(config, iterationCount) = "cycleDetailed" THEN times
    ELSE << RatDivInt(netTime, iterationCount) >>

nextState ==
    [ timings                    |-> getTimings(samples \o cycleTimes),
      config                     |-> state.config,
      cycles                     |-> state.cycles + 1,
      iterationCount             |-> state.iterationCount + iterationCount,
      elapsedTime                |-> now,
      elapsedNetTime             |-> RatAdd(state.elapsedNetTime, netTime),
      elapsedCycleGrossTime      |-> state.elapsedCycleGrossTime + (now - cycleStartTime),
      elapsedTimeForInitialSetUp |-> state.elapsedTimeForInitialSetUp ]

\* the record of a cycle with a one-based index
BenchmarkCycleDetails_oneBasedIndex(st, count) ==
    [ index          |-> st.cycles,
      elapsedTime    |-> st.elapsedTime,
      setUpTime      |-> RatSub(Whole(st.elapsedTime), st.elapsedNetTime),
      iterationCount |-> count,
      timingsSoFar   |-> st.timings ]

BenchmarkCycleDetails(st, count) ==
    [ index          |-> st.cycles - 1,
      elapsedTime    |-> st.elapsedTime,
      setUpTime      |-> RatSub(Whole(st.elapsedTime), st.elapsedNetTime),
      iterationCount |-> count,
      timingsSoFar   |-> st.timings ]

\* the cycle function returns: the samples are pushed, the next state is
\* calculated, the cycle is recorded and onCycleDone is invoked
CycleDone ==
    /\ pc = "fn"
    /\ i >= iterationCount
    /\ samples' = samples \o cycleTimes
    /\ state' = nextState
    /\ cycleDetails' = Append(cycleDetails, BenchmarkCycleDetails(nextState, iterationCount))
    /\ IF config.onCycleDone
         THEN /\ reported' = Append(reported, BenchmarkCycleDetails(nextState, iterationCount))
              /\ calls' = Append(calls, Call("onCycleDone", nextState.cycles - 1))
              /\ \E t \in OnCycleDoneTimes : now' = now + t
         ELSE UNCHANGED << reported, calls, now >>
    /\ pc' = "schedule"
    /\ UNCHANGED << config, cycleVars, result, thrown >>
    /\ UNCHANGED outerVars

Next ==
    \/ BeforeAll
    \/ BeforeAllFails
    \/ ScheduleStop
    \/ ScheduleCycle
    \/ Before
    \/ BeforeFails
    \/ Fn
    \/ FnFails
    \/ CycleDone

Spec == Init /\ [][Next]_vars

\* the same runner started on a configuration §7 calls a configuration error
InitAnyConfig == InitOver(InvalidConfigs)

SpecAnyConfig == InitAnyConfig /\ [][Next]_vars

\* the same runner started on an operation that returns no value
InitNoReturnValue == InitOver(NoReturnValueConfigs)

SpecNoReturnValue == InitNoReturnValue /\ [][Next]_vars

\* The configurations whose runs end within MaxCalls operation calls: a
\* budget of 5 s, or an operation of 5 s and more.
ShortRunConfigs ==
    { c \in ValidConfigs : c.maxTime = Given(5) \/ c.fn = {50, 51} }

InitShortRun == InitOver(ShortRunConfigs)

\* a step of benchmark() other than the end of a cycle, in which nothing fails
Proceed ==
    \/ BeforeAll
    \/ ScheduleStop
    \/ ScheduleCycle
    \/ Before
    \/ Fn

\* WF_vars(CycleDone), with ENABLED <<CycleDone>>_vars written out: CycleDone
\* has no guard but its first two conjuncts and always changes pc
CycleDoneFair ==
    \/ []<>(~ (pc = "fn" /\ i >= iterationCount))
    \/ []<><<CycleDone>>_vars

\* benchmark() is an async function on the event loop: while it can
\* proceed it does, each awaited call completes (or fails)
Fairness == WF_vars(Proceed) /\ CycleDoneFair

SpecFair == InitShortRun /\ [][Next]_vars /\ Fairness

\* The synchronous runs with a budget of 10 s: cycleSync records one sample
\* per cycle, and these runs complete after cycles of different counts.
SynchronousConfigs ==
    { c \in ConfigsOver({Given(10)}, ValidInitialCounts) : c.isSync }

InitSynchronous == InitOver(SynchronousConfigs)

SpecSynchronous == InitSynchronous /\ [][Next]_vars

\* no run of benchmark() is under way
NoRun ==
    /\ config = <<>>
    /\ now = 0
    /\ pc = "idle"
    /\ state = <<>>
    /\ samples = <<>>
    /\ cycleDetails = <<>>
    /\ iterationCount = 0
    /\ cycleStartTime = 0
    /\ netTime = Whole(0)
    /\ times = <<>>
    /\ i = 0
    /\ result = <<>>
    /\ thrown = ""
    /\ calls = <<>>
    /\ reported = <<>>

(***************************************************************************)
(* The estimator on its own: getTimings(samples) for sample arrays of 0 to *)
(* MaxSamples samples                                                      *)
(***************************************************************************)
\* n durations of an operation that takes base ticks and, in turn, 0 to
\* m - 1 ticks more
SampleArrays ==
    { [k \in 1..n |-> Whole(base + (k % m))] :
        n \in 0..MaxSamples, base \in {12, 50}, m \in 1..3 }

InitEstimator ==
    /\ arr \in SampleArrays
    /\ estimate = <<>>
    /\ NoRun
    /\ NoAdd
    /\ NoSuite

\* getTimings(arr): the critical value it looks up and the Timings it returns
GetTimings ==
    /\ estimate = <<>>
    /\ estimate' = << [ critical |-> critical(Len(arr)),
                        timings  |-> getTimings(arr) ] >>
    /\ UNCHANGED << arr, results, added, suite, runVars >>

NextEstimator == GetTimings

SpecEstimator == InitEstimator /\ [][NextEstimator]_vars

(***************************************************************************)
(* BenchmarkResult.add(...results), called on the results of runs          *)
(***************************************************************************)
\* The callbacks given to reduce: (value, r) => [...value, ...r[key]] for the
\* array fields and (value, r) => value + r[key] for the numbers
merge(value, r, key) ==
    IF key \in {"samples", "cycleDetails"} THEN value \o r[key]
    ELSE IF key = "setUpTime" THEN RatAdd(value, r[key])
    ELSE value + r[key]

\* results.reduce((value, r) => merge(value, r, key), initial)
RECURSIVE reduce(_, _, _)
reduce(rs, key, initial) ==
    IF rs = <<>> THEN initial
    ELSE reduce(Tail(rs), key, merge(initial, Head(rs), key))

\* add with the samples of a later result put before those merged so far
add_laterSamplesFirst(rs) ==
    LET allSamples == reduce(Reverse(rs), "samples", <<>>)
        timings    == getTimings(allSamples)
    IN [ cycles                |-> reduce(rs, "cycles", 0),
         cycleDetails          |-> reduce(rs, "cycleDetails", <<>>),
         meanTime              |-> timings.meanTime,
         relativeMarginOfError |-> timings.relativeMarginOfError,
         elapsedTime           |-> reduce(rs, "elapsedTime", 0),
         setUpTime             |-> reduce(rs, "setUpTime", Whole(0)),
         iterationCount        |-> reduce(rs, "iterationCount", 0),
         samples               |-> allSamples ]

\* static add(...results: BenchmarkResult[])
add(rs) ==
    LET allSamples == reduce(rs, "samples", <<>>)
        timings    == getTimings(allSamples)
    IN [ cycles                |-> reduce(rs, "cycles", 0),
         cycleDetails          |-> reduce(rs, "cycleDetails", <<>>),
         meanTime              |-> timings.meanTime,
         relativeMarginOfError |-> timings.relativeMarginOfError,
         elapsedTime           |-> reduce(rs, "elapsedTime", 0),
         setUpTime             |-> reduce(rs, "setUpTime", Whole(0)),
         iterationCount        |-> reduce(rs, "iterationCount", 0),
         samples               |-> allSamples ]

\* What benchmark() returns for a run of one cycle that uses up the budget:
\* a before hook of h ticks, then one operation call for each of the
\* durations ds, recorded one by one.
ResultOfOneCycle(h, ds) ==
    LET ts == [k \in DOMAIN ds |-> Whole(ds[k])]
        st == [ timings                    |-> getTimings(ts),
                config                     |-> <<>>,
                cycles                     |-> 1,
                iterationCount             |-> Len(ds),
                elapsedTime                |-> h + getSum(ts).num,
                elapsedNetTime             |-> getSum(ts),
                elapsedCycleGrossTime      |-> h + getSum(ts).num,
                elapsedTimeForInitialSetUp |-> 0 ]
    IN [ meanTime              |-> st.timings.meanTime,
         relativeMarginOfError |-> st.timings.relativeMarginOfError,
         cycles                |-> 1,
         iterationCount        |-> st.iterationCount,
         elapsedTime           |-> st.elapsedTime,
         setUpTime             |-> RatSub(Whole(st.elapsedTime), st.elapsedNetTime),
         cycleDetails          |-> << BenchmarkCycleDetails(st, Len(ds)) >>,
         samples               |-> ts ]

\* the results handed to add
SomeResults ==
    { ResultOfOneCycle(h, ds) : h \in {0, 1}, ds \in { <<50>>, <<50, 51>>, <<51, 50>> } }

InitAdd ==
    /\ results = <<>>
    /\ added = <<>>
    /\ NoRun
    /\ NoEstimate
    /\ NoSuite

\* BenchmarkResult.add(r) for the first result, then add(merged, r) on what
\* the last call returned
Add ==
    /\ Len(results) < MaxResults
    /\ \E r \in SomeResults :
          /\ results' = Append(results, r)
          /\ added' = IF added = <<>> THEN << add(<< r >>) >>
                       ELSE << add(<< added[1], r >>) >>
    /\ UNCHANGED << arr, estimate, suite, runVars >>

NextAdd == Add

SpecAdd == InitAdd /\ [][NextAdd]_vars

(***************************************************************************)
(* The plain suite runner: runBenchmarks(factories).  A call of            *)
(* benchmark() is one step that resolves or is rejected.                   *)
(***************************************************************************)
InitRunBenchmarks ==
    /\ \E n \in 0..MaxFactories :
          suite = [ runner       |-> "runBenchmarks",
                    length       |-> n,     \* factories.length
                    index        |-> 1,
                    erroredCount |-> 0,
                    pc           |-> "loop",
                    ran          |-> <<>>,  \* the calls of benchmark(), in order
                    returned     |-> <<>> ]
    /\ NoRun
    /\ NoEstimate
    /\ NoAdd

\* a turn of the loop in which benchmark(config) resolves: the result is
\* logged, index++
BenchmarkResolves ==
    /\ suite.pc = "loop"
    /\ suite.index <= suite.length
    /\ suite' = [suite EXCEPT !.ran = Append(@, [factory |-> suite.index, ok |-> TRUE]),
                              !.index = @ + 1]
    /\ UNCHANGED << arr, estimate, results, added, runVars >>

\* a rejection of benchmark() that leaves the loop and rejects runBenchmarks
BenchmarkRejects_notCaught ==
    /\ suite.pc = "loop"
    /\ suite.index <= suite.length
    /\ suite' = [suite EXCEPT !.ran = Append(@, [factory |-> suite.index, ok |-> FALSE]),
                              !.pc = "rejected"]
    /\ UNCHANGED << arr, estimate, results, added, runVars >>

\* a turn of the loop in which benchmark(config) is rejected: catch (err),
\* erroredCount++, index++
BenchmarkRejects ==
    /\ suite.pc = "loop"
    /\ suite.index <= suite.length
    /\ suite' = [suite EXCEPT !.ran = Append(@, [factory |-> suite.index, ok |-> FALSE]),
                              !.erroredCount = @ + 1,
                              !.index = @ + 1]
    /\ UNCHANGED << arr, estimate, results, added, runVars >>

\* after the loop: return { hasErrors: erroredCount > 0 }
RunBenchmarksReturns ==
    /\ suite.pc = "loop"
    /\ suite.index > suite.length
    /\ suite' = [suite EXCEPT !.pc = "returned",
                              !.returned = << [hasErrors |-> suite.erroredCount > 0] >>]
    /\ UNCHANGED << arr, estimate, results, added, runVars >>

NextRunBenchmarks ==
    \/ BenchmarkResolves
    \/ BenchmarkRejects
    \/ RunBenchmarksReturns

SpecRunBenchmarks == InitRunBenchmarks /\ [][NextRunBenchmarks]_vars

(***************************************************************************)
(* The comparison suite runner: runComparisons(benchmarks).                *)
(* runComparison() is of compare.ts and modelled from sections 4.4 and 7   *)
(* of the spec: it runs the benchmark of each configuration in order, a    *)
(* failure of one is isolated, and the candidates are the configurations   *)
(* whose benchmark resolved (their ranking is not modelled).               *)
(***************************************************************************)
InitRunComparisons ==
    /\ \E n \in 0..MaxFactories :
          suite = [ runner       |-> "runComparisons",
                    length       |-> n,     \* benchmarks.length
                    index        |-> 1,
                    erroredCount |-> 0,
                    pc           |-> "runComparison",
                    ran          |-> <<>>,  \* the calls of benchmark(), in order
                    candidates   |-> <<>>,
                    returned     |-> <<>> ]
    /\ NoRun
    /\ NoEstimate
    /\ NoAdd

\* inside runComparison: the benchmark of the next configuration resolves
ComparisonResolves ==
    /\ suite.pc = "runComparison"
    /\ Len(suite.ran) < suite.length
    /\ suite' = [suite EXCEPT
                    !.ran = Append(@, [config |-> Len(suite.ran) + 1, ok |-> TRUE]),
                    !.candidates = Append(@, Len(suite.ran) + 1)]
    /\ UNCHANGED << arr, estimate, results, added, runVars >>

\* inside runComparison: the benchmark of the next configuration fails, the
\* comparison goes on without it
ComparisonRejects ==
    /\ suite.pc = "runComparison"
    /\ Len(suite.ran) < suite.length
    /\ suite' = [suite EXCEPT
                    !.ran = Append(@, [config |-> Len(suite.ran) + 1, ok |-> FALSE])]
    /\ UNCHANGED << arr, estimate, results, added, runVars >>

\* runComparison has resolved: for (const candidate of result.candidates)
\* prints and index++, then return { hasErrors: erroredCount > 0 }
RunComparisonsReturns ==
    /\ suite.pc = "runComparison"
    /\ Len(suite.ran) = suite.length
    /\ suite' = [suite EXCEPT
                    !.index = @ + Len(suite.candidates),
                    !.pc = "returned",
                    !.returned = << [hasErrors |-> suite.erroredCount > 0] >>]
    /\ UNCHANGED << arr, estimate, results, added, runVars >>

NextRunComparisons ==
    \/ ComparisonResolves
    \/ ComparisonRejects
    \/ RunComparisonsReturns

SpecRunComparisons == InitRunComparisons /\ [][NextRunComparisons]_vars

(***************************************************************************)
(* Properties                                                              *)
(***************************************************************************)
\* the iteration count the configuration asks for the first cycle
ConfiguredInitialCount ==
    IF config.initialCount = Undefined THEN 1 ELSE config.initialCount[1]

\* C1: on the first scheduler call (no cycle completed) nextIterationCount
\* returns the configured initialIterationCount, 1 when none is configured,
\* whatever the budget and the time setupOnce took; the first cycle is run
\* with that count, and a run that returns has completed at least one cycle.
C1_FirstCallReturnsInitialCount ==
    /\ (pc = "schedule" /\ state.cycles = 0)
          => nextIterationCount(state) = ConfiguredInitialCount
    /\ (pc \in {"before", "fn"} /\ state.cycles = 0)
          => iterationCount = ConfiguredInitialCount
    /\ pc = "done" => result[1].cycles >= 1 /\ Len(result[1].samples) >= 1

\* the first cycle runs with the configured count of 2 after a setupOnce that
\* alone took longer than the whole budget
C1_Witness ==
    /\ pc = "fn"
    /\ state.cycles = 0
    /\ i = 2
    /\ config.initialCount = Given(2)
    /\ state.elapsedTimeForInitialSetUp > maxTime(config)

\* C2: nextIterationCount never returns a negative iteration count, in any
\* state of a run of any configuration.
C2_NeverNegative ==
    pc = "schedule" => nextIterationCount(state) >= 0

\* C3: an operation of one constant positive duration: once there are two
\* samples or more the relative margin of error is 0, the scheduler returns
\* 0, and the run has at most one cycle after the first.
C3_ConstantOperationConverges ==
    (Cardinality(config.fn) = 1 /\ state.timings.sampleCount >= 2)
        => /\ state.timings.relativeMarginOfError = Finite(0)
           /\ pc = "schedule" => nextIterationCount(state) = 0
           /\ state.cycles <= 2

\* C4: a configuration with a budget <= 0 or an initial iteration count <= 0
\* is rejected before the first cycle: setupPerCycle and the operation are
\* never invoked and no sample is recorded.
C4_InvalidConfigRejected ==
    ~ IsValid(config)
        => /\ \A k \in DOMAIN calls : calls[k].call \notin {"before", "fn"}
           /\ samples = <<>>
           /\ pc \notin {"before", "fn"}

\* a call that failed is the last call made, benchmark() is rejected with it
\* and has no result, and onCycleDone was invoked for completed cycles only
C5_FailedCallIsLast ==
    \A k \in DOMAIN calls :
        ~ calls[k].ok
            => /\ k = Len(calls)
               /\ pc = "failed"
               /\ thrown = calls[k].call
               /\ result = <<>>
               /\ Len(reported) = IF config.onCycleDone THEN state.cycles ELSE 0
               /\ Len(cycleDetails) = state.cycles

\* C5: a failure of the operation, of setupPerCycle or of setupOnce is the
\* last thing the run invokes: benchmark() is rejected with it, returns no
\* result, and no step follows (no retry, no further call, no onCycleDone
\* for the interrupted cycle).
C5_FailurePropagates ==
    [] C5_FailedCallIsLast /\ [][pc # "failed"]_vars

\* the operation fails in the second iteration of a later cycle
C5_Witness ==
    /\ pc = "failed"
    /\ thrown = "fn"
    /\ state.cycles >= 1
    /\ i >= 1
    /\ ~ calls[Len(calls)].ok

\* the time budget the configuration asks for, in ticks: 30 s when none is given
Budget ==
    IF config.maxTime = Undefined THEN 30 * TicksPerSecond
    ELSE config.maxTime[1] * TicksPerSecond

\* C6 as stated: when benchmark() returns, the elapsed time less the time of
\* setupOnce is at most the budget.
C6_NeverExceedsBudget ==
    pc = "done"
        => result[1].elapsedTime - state.elapsedTimeForInitialSetUp <= Budget

\* C6 as amended: only the last cycle of a run can end past the budget: at
\* the end of every cycle that another cycle follows, the elapsed time less
\* the time of setupOnce is below the budget.
C6_OnlyLastCycleOverruns ==
    \A k \in 1..(Len(cycleDetails) - 1) :
        cycleDetails[k].elapsedTime - state.elapsedTimeForInitialSetUp < Budget

\* a run of three cycles returns past its budget
C6_Witness ==
    /\ pc = "done"
    /\ Len(cycleDetails) >= 3
    /\ result[1].elapsedTime - state.elapsedTimeForInitialSetUp > Budget

\* the state the scheduler would see had setupOnce taken no time
WithoutInitialSetUp(st) ==
    [st EXCEPT !.elapsedTime = @ - st.elapsedTimeForInitialSetUp,
               !.elapsedTimeForInitialSetUp = 0]

\* out of time at the loop head: the result is returned, nothing is invoked
C7_StopsWhenOutOfTime ==
    (pc = "schedule" /\ state.cycles >= 1
        /\ state.elapsedTime - state.elapsedTimeForInitialSetUp >= Budget)
      => pc' = "done" /\ calls' = calls /\ result' # <<>>

\* a cycle under way ends by failing or with all its iterations done
C7_CycleNotCutShort ==
    (pc \in {"before", "fn"} /\ pc' \notin {"before", "fn"})
      => \/ pc' = "failed"
         \/ pc' = "schedule" /\ i = iterationCount /\ state'.cycles = state.cycles + 1

\* the scheduler answers as it would had setupOnce taken no time
C7_SetUpNotCharged ==
    pc = "schedule"
      => nextIterationCount(state) = nextIterationCount(WithoutInitialSetUp(state))

\* C7: the budget is tested between cycles only and setupOnce is not charged
\* to it.  With a cycle completed and elapsed time less setupOnce time at or
\* past the budget the scheduler returns 0: the loop head returns the result
\* and no setupPerCycle or operation call follows; the scheduler answers as
\* it would had setupOnce taken no time; and a cycle that has started is
\* never cut short.
C7_BudgetCheckedBetweenCycles ==
    [] C7_SetUpNotCharged /\ [][C7_StopsWhenOutOfTime /\ C7_CycleNotCutShort]_vars

\* after a setupOnce, a run of several cycles stopped by the budget: its
\* last cycle began within the budget and ended at or past it
C7_Witness ==
    /\ pc = "done"
    /\ config.beforeAll
    /\ Len(cycleDetails) >= 2
    /\ state.elapsedTime - state.elapsedTimeForInitialSetUp >= Budget

\* the first cycle is done and the scheduler returns 0: no second cycle
FirstCycleStops ==
    /\ state.cycles = 1
    /\ pc \in {"schedule", "done"}
    /\ pc = "schedule" => nextIterationCount(state) = 0

\* C8 as stated: a budget below the time of setupOnce plus the first cycle:
\* the first cycle is completed, the scheduler then returns 0, one cycle.
C8_BudgetBelowSetUpAndFirstCycle ==
    (Len(cycleDetails) >= 1 /\ Budget < cycleDetails[1].elapsedTime)
        => FirstCycleStops

\* C8 as amended: a budget no larger than the time of the first cycle alone,
\* the time of setupOnce not counted: the first cycle is completed, the
\* scheduler then returns 0, and the run has exactly one cycle.
C8_BudgetBelowFirstCycle ==
    (Len(cycleDetails) >= 1
        /\ Budget <= cycleDetails[1].elapsedTime - state.elapsedTimeForInitialSetUp)
        => FirstCycleStops

\* a run with a setupOnce returns after one cycle that used up the budget
C8_Witness ==
    /\ pc = "done"
    /\ config.beforeAll
    /\ result[1].cycles = 1
    /\ Budget <= cycleDetails[1].elapsedTime - state.elapsedTimeForInitialSetUp

\* a call as made, without its outcome and, for the operation, its duration
Shape(c) == [call |-> c.call, arg |-> IF c.call = "fn" THEN 0 ELSE c.arg, ok |-> TRUE]

\* the calls of one cycle of count iterations of which n were started
CallsOfCycle(count, n, index, completed) ==
    (IF config.before THEN << Call("before", count) >> ELSE <<>>)
        \o [k \in 1..n |-> Call("fn", 0)]
        \o (IF completed /\ config.onCycleDone
              THEN << Call("onCycleDone", index) >> ELSE <<>>)

RECURSIVE CallsOfCompletedCycles(_)
CallsOfCompletedCycles(k) ==
    IF k = 0 THEN <<>>
    ELSE CallsOfCompletedCycles(k - 1)
            \o CallsOfCycle(cycleDetails[k].iterationCount,
                            cycleDetails[k].iterationCount, k - 1, TRUE)

\* the calls of the cycle under way, if any
CallsOfCurrentCycle ==
    IF pc = "fn" THEN CallsOfCycle(iterationCount, i, 0, FALSE)
    ELSE IF pc = "failed" /\ thrown = "fn" THEN CallsOfCycle(iterationCount, i + 1, 0, FALSE)
    ELSE IF pc = "failed" /\ thrown = "before" THEN << Call("before", iterationCount) >>
    ELSE <<>>

\* setupOnce once and first, then cycle after cycle: setupPerCycle with the
\* cycle's count, that many operation calls, onCycleDone
CallsInOrder ==
    (IF config.beforeAll /\ pc # "beforeAll" THEN << Call("beforeAll", 0) >> ELSE <<>>)
        \o CallsOfCompletedCycles(Len(cycleDetails))
        \o CallsOfCurrentCycle

\* the durations the completed operation calls returned, in the order of the calls
Returned ==
    LET done == SelectSeq(calls, LAMBDA c : c.call = "fn" /\ c.ok)
    IN [k \in 1..Len(done) |-> done[k].arg]

RECURSIVE IterationsBefore(_)
IterationsBefore(k) ==
    IF k <= 1 THEN 0 ELSE IterationsBefore(k - 1) + cycleDetails[k - 1].iterationCount

RECURSIVE SumOf(_)
SumOf(seq) == IF seq = <<>> THEN 0 ELSE Head(seq) + SumOf(Tail(seq))

\* one sample per operation call, in the order of the calls (per-iteration
\* form, the durations of the cycle under way still in times), or one per
\* cycle: the cycle's net time over its count (aggregated)
SamplesInOrder ==
    IF config.isSync
      THEN /\ Len(samples) = Len(cycleDetails)
           /\ \A k \in DOMAIN samples :
                 LET n == cycleDetails[k].iterationCount
                     b == IterationsBefore(k)
                 IN samples[k] = Rat(SumOf(SubSeq(Returned, b + 1, b + n)), n)
      ELSE samples \o (IF pc \in {"schedule", "done"} THEN <<>> ELSE times)
              = [k \in DOMAIN Returned |-> Whole(Returned[k])]

\* C9: the calls of a run are made one at a time in this order: setupOnce
\* once before the first cycle; per cycle setupPerCycle once with the count,
\* then that many operation calls; no call of one cycle lies between calls
\* of another, and the samples are appended in the order of execution.
C9_CallsAndSamplesInOrder ==
    /\ [k \in DOMAIN calls |-> Shape(calls[k])] = CallsInOrder
    /\ SamplesInOrder

\* a returned run with both hooks, a cycle of several iterations among a few,
\* and samples that differ
C9_Witness ==
    /\ pc = "done"
    /\ config.before /\ config.beforeAll /\ ~ config.isSync
    /\ Len(cycleDetails) >= 2
    /\ \E k \in DOMAIN cycleDetails : cycleDetails[k].iterationCount >= 2
    /\ \E j, k \in DOMAIN samples : j < k /\ samples[j].num < samples[k].num

\* where in calls the k-th invocation of onCycleDone is
RECURSIVE PositionOfDone(_, _)
PositionOfDone(k, from) ==
    IF from > Len(calls) THEN 0
    ELSE IF calls[from].call = "onCycleDone"
            THEN IF k = 1 THEN from ELSE PositionOfDone(k - 1, from + 1)
    ELSE PositionOfDone(k, from + 1)

\* the operation calls completed before position p of calls
OperationCallsBefore(p) ==
    Len(SelectSeq(SubSeq(calls, 1, p - 1), LAMBDA c : c.call = "fn" /\ c.ok))

\* the samples there were after k cycles
SamplesAfter(k) ==
    SubSeq(samples, 1, IF config.isSync THEN k
                       ELSE OperationCallsBefore(PositionOfDone(k, 1)))

\* C10: with onCycleDone given it is invoked once after each completed cycle
\* and for no other; invocation k (from 0) gets index k, the iteration count
\* of that cycle and the Timings of all samples so far; the result's cycles
\* is the number of invocations and its cycleDetails the records passed.
C10_OnCycleDoneOncePerCycle ==
    config.onCycleDone
      => /\ Len(reported) = state.cycles
         /\ Len(SelectSeq(calls, LAMBDA c : c.call = "onCycleDone")) = Len(reported)
         /\ \A k \in DOMAIN reported :
               LET p == PositionOfDone(k, 1)
                   q == IF k = 1 THEN 0 ELSE PositionOfDone(k - 1, 1)
               IN /\ p > 0
                  /\ calls[p].arg = k - 1
                  /\ reported[k].index = k - 1
                  /\ reported[k].iterationCount
                        = OperationCallsBefore(p) - OperationCallsBefore(q + 1)
                  /\ calls[p - 1].call = "fn"
                  /\ reported[k].timingsSoFar = getTimings(SamplesAfter(k))
         /\ pc = "done" => /\ result[1].cycles = Len(reported)
                           /\ result[1].cycleDetails = reported

\* a returned run of several cycles, one of several iterations, each reported
C10_Witness ==
    /\ pc = "done"
    /\ config.onCycleDone
    /\ Len(reported) >= 3
    /\ \E k \in DOMAIN reported : reported[k].iterationCount >= 2

\* the wall-clock durations of the completed operation calls, in call order
WallClockTimes ==
    LET done == SelectSeq(calls, LAMBDA c : c.call = "fn" /\ c.ok)
    IN [k \in 1..Len(done) |-> Whole(done[k].arg)]

\* C11: the operation completes with no return value: every sample recorded
\* is a number, in per-iteration form the wall-clock time of its call, and
\* the mean of the run is a number.
C11_NoReturnValueMeasured ==
    ~ config.fnReturns
      => /\ \A k \in DOMAIN samples : ~ IsNaN(samples[k])
         /\ state.timings.sampleCount > 0 => ~ IsNaN(state.timings.meanTime)
         /\ (~ config.isSync /\ pc \in {"schedule", "done"})
               => samples = WallClockTimes

\* the samples of cycle k of a run in per-iteration form: the durations
\* its operation calls returned, in call order
DurationsOfCycle(k) ==
    SubSeq(WallClockTimes, IterationsBefore(k) + 1,
           IterationsBefore(k) + cycleDetails[k].iterationCount)

\* C12 as stated: a synchronous run has appended, cycle after cycle, the
\* samples an asynchronous run appends for the same counts and durations
\* (one per operation call) and so has the same Timings.
C12_SyncAccumulatesAsAsync ==
    (config.isSync /\ pc \in {"schedule", "done"})
      => /\ samples = WallClockTimes
         /\ state.timings = getTimings(WallClockTimes)

\* C12 as amended: an asynchronous run appends one sample per operation
\* call; a synchronous run appends one sample per cycle, the mean of the
\* samples the asynchronous run appends for that cycle.  The net time and
\* the iteration count of the two are the same, and the Timings are those of
\* the samples appended.
C12_SyncAppendsCycleMeans ==
    pc \in {"schedule", "done"}
      => /\ IF config.isSync
               THEN /\ Len(samples) = Len(cycleDetails)
                    /\ \A k \in DOMAIN samples : samples[k] = getMean(DurationsOfCycle(k))
               ELSE samples = WallClockTimes
         /\ state.elapsedNetTime = getSum(WallClockTimes)
         /\ state.iterationCount = Len(WallClockTimes)
         /\ state.timings = getTimings(samples)

\* a synchronous run has completed cycles of several iterations, one with a
\* sample that is no duration any call returned
C12_Witness ==
    /\ pc = "schedule"
    /\ config.isSync
    /\ Len(cycleDetails) >= 2
    /\ \E k \in DOMAIN samples :
          cycleDetails[k].iterationCount >= 2 /\ samples[k].den > 1

\* the two-tailed 95% critical values of Student's t for 1 to 30 degrees
\* of freedom, in thousandths
StudentT95 ==
    << 12706, 4303, 3182, 2776, 2571, 2447, 2365, 2306, 2262, 2228,
       2201, 2179, 2160, 2145, 2131, 2120, 2110, 2101, 2093, 2086,
       2080, 2074, 2069, 2064, 2060, 2056, 2052, 2048, 2045, 2042 >>

\* C13: the critical value getTimings uses for n samples, df = n - 1, is
\* Student's t value for df when 1 <= df <= 30 (2.776 for n = 5), 1.96 when
\* df > 30 (more samples than the table has rows for), and the df = 1
\* value 12.706 whenever df <= 0.
C13_CriticalValue ==
    estimate # <<>>
      => LET df == Len(arr) - 1
         IN /\ Len(arr) = 5 => estimate[1].critical = 2776
            /\ estimate[1].critical =
                  IF df <= 0 THEN 12706
                  ELSE IF df <= 30 THEN StudentT95[df]
                  ELSE 1960

\* the sequences of seqs, one after another
RECURSIVE Flatten(_)
Flatten(seqs) == IF seqs = <<>> THEN <<>> ELSE Head(seqs) \o Flatten(Tail(seqs))

\* C14: the result of merging r1, ..., rk, whether by one call of add or by
\* add(add(r1, r2), r3): samples and cycleDetails are the inputs'
\* concatenated in argument order; cycles, iterationCount, elapsedTime and
\* setUpTime are the sums; meanTime and relativeMarginOfError are the
\* estimator's on the concatenated samples; and the nested merge equals the
\* flat one.
C14_AddIsOneLongerRun ==
    added # <<>>
      => LET a   == added[1]
             all == Flatten([k \in DOMAIN results |-> results[k].samples])
         IN /\ a.samples = all
            /\ a.cycleDetails = Flatten([k \in DOMAIN results |-> results[k].cycleDetails])
            /\ a.cycles = SumOf([k \in DOMAIN results |-> results[k].cycles])
            /\ a.iterationCount = SumOf([k \in DOMAIN results |-> results[k].iterationCount])
            /\ a.elapsedTime = SumOf([k \in DOMAIN results |-> results[k].elapsedTime])
            /\ a.setUpTime = Whole(SumOf([k \in DOMAIN results |-> results[k].setUpTime.num]))
            /\ a.meanTime = Rat(SumOf([k \in DOMAIN all |-> all[k].num]), Len(all))
            /\ a.meanTime = getTimings(all).meanTime
            /\ a.relativeMarginOfError = getTimings(all).relativeMarginOfError
            /\ a = add(results)

\* three results of different runs merged by add(add(r1, r2), r3), with a
\* finite margin of error
C14_Witness ==
    /\ Len(results) = 3
    /\ added # <<>>
    /\ results[1] # results[2] /\ results[2] # results[3]
    /\ Len(results[1].samples) # Len(results[3].samples)
    /\ results[1].samples # results[2].samples
    /\ ~ added[1].relativeMarginOfError.inf

\* C15: runComparisons: a failure of the benchmark of one configuration
\* does not abort the others (when it returns, the benchmark of every
\* configuration was run), and the hasErrors returned is true exactly when
\* the benchmark of at least one configuration failed.
C15_ComparisonFailureIsolated ==
    suite.returned # <<>>
      => /\ Len(suite.ran) = suite.length
         /\ suite.returned[1].hasErrors = (\E k \in DOMAIN suite.ran : ~ suite.ran[k].ok)

\* C19: runBenchmarks calls benchmark() for the factories one by one in list
\* order and is never rejected by a failure of benchmark(); when it returns,
\* every factory was run exactly once, whichever failed, and hasErrors is
\* true exactly when at least one call of benchmark() failed.
C19_FailedBenchmarkDoesNotStopSuite ==
    /\ suite.pc # "rejected"
    /\ Len(suite.ran) <= suite.length
    /\ \A k \in DOMAIN suite.ran : suite.ran[k].factory = k
    /\ suite.erroredCount = Cardinality({k \in DOMAIN suite.ran : ~ suite.ran[k].ok})
    /\ suite.pc = "loop" => suite.index = Len(suite.ran) + 1
    /\ suite.pc = "returned"
          => /\ Len(suite.ran) = suite.length
             /\ suite.returned[1].hasErrors = (\E k \in DOMAIN suite.ran : ~ suite.ran[k].ok)

\* the suite returns after the first and the third of four benchmarks failed
C19_Witness ==
    /\ suite.pc = "returned"
    /\ suite.length = 4
    /\ ~ suite.ran[1].ok /\ suite.ran[2].ok /\ ~ suite.ran[3].ok /\ suite.ran[4].ok
    /\ suite.returned[1].hasErrors

\* C16 as stated: after the first cycle the scheduler sizes a cycle for at
\* most a tenth of the budget of the run: count * (gross time per iteration)
\* is at most Budget / 10, up to the rounding of the count (half an
\* iteration).
C16_CycleCappedAtTenthOfBudget ==
    (pc = "schedule" /\ state.cycles >= 1)
      => 20 * nextIterationCount(state) * state.elapsedCycleGrossTime
            <= 2 * Budget * state.iterationCount + 10 * state.elapsedCycleGrossTime

\* C16 as amended: the cap is 3 seconds, a tenth of the default budget of
\* 30 seconds, whatever the budget of the run: count * (gross time per
\* iteration) is at most 3 s, up to the rounding of the count.
C16_CycleCappedAtThreeSeconds ==
    (pc = "schedule" /\ state.cycles >= 1)
      => 2 * nextIterationCount(state) * state.elapsedCycleGrossTime
            <= 2 * (3 * TicksPerSecond) * state.iterationCount
                  + state.elapsedCycleGrossTime

\* with much of a 30 s budget left and a finite margin of error the
\* scheduler sizes a cycle of several iterations at the cap
C16_Witness ==
    /\ pc = "schedule"
    /\ state.cycles >= 1
    /\ config.maxTime = Undefined
    /\ ~ state.timings.relativeMarginOfError.inf
    /\ nextIterationCount(state) >= 2
    /\ 2 * nextIterationCount(state) * state.elapsedCycleGrossTime
          + state.elapsedCycleGrossTime
            > 2 * (3 * TicksPerSecond) * state.iterationCount
    /\ Budget - (state.elapsedTime - state.elapsedTimeForInitialSetUp)
          > 6 * TicksPerSecond

\* the budget left at the head of the loop, the time of setupOnce not charged
BudgetLeft == Budget - (state.elapsedTime - state.elapsedTimeForInitialSetUp)

\* the time between the cycles so far: the mean setup time per cycle, times
\* the number of cycles
TimeBetweenCycles ==
    state.elapsedTime - state.elapsedCycleGrossTime - state.elapsedTimeForInitialSetUp

\* C17 as stated: a positive count returned after the first cycle plans no
\* overrun: count * (gross time per iteration) + (mean setup time per
\* cycle) is at most the budget left.
C17_PlannedCycleFitsBudget ==
    (pc = "schedule" /\ state.cycles >= 1 /\ nextIterationCount(state) > 0)
      => nextIterationCount(state) * state.elapsedCycleGrossTime * state.cycles
            + TimeBetweenCycles * state.iterationCount
         <= BudgetLeft * state.iterationCount * state.cycles

\* C17 as amended: the count is rounded to the nearest integer, so the
\* planned cycle can overrun the budget left, by less than half the gross
\* time of one iteration: count * (gross time per iteration) + (mean setup
\* time per cycle) is at most the budget left + half the gross time per
\* iteration.
C17_PlannedOverrunBelowHalfIteration ==
    (pc = "schedule" /\ state.cycles >= 1 /\ nextIterationCount(state) > 0)
      => 2 * nextIterationCount(state) * state.elapsedCycleGrossTime * state.cycles
            + 2 * TimeBetweenCycles * state.iterationCount
         <= 2 * BudgetLeft * state.iterationCount * state.cycles
               + state.elapsedCycleGrossTime * state.cycles

\* after a setupOnce and several cycles with a setupPerCycle the scheduler
\* returns a count whose predicted cycle ends past the budget
C17_Witness ==
    /\ pc = "schedule"
    /\ state.cycles >= 2
    /\ config.before /\ config.beforeAll
    /\ nextIterationCount(state) > 0
    /\ nextIterationCount(state) * state.elapsedCycleGrossTime * state.cycles
            + TimeBetweenCycles * state.iterationCount
         > BudgetLeft * state.iterationCount * state.cycles

\* C18: a run in which no operation and no hook fails completes: after
\* finitely many cycles the scheduler returns 0 and benchmark() returns a
\* BenchmarkResult (every call takes a positive time in the model), also
\* when the relative margin of error is Infinity after every cycle.
C18_EventuallyCompletes ==
    <>((pc = "done" /\ result # <<>>) \/ pc = "failed")

\* a run of several cycles has returned with the relative margin of error
\* Infinity after each of them
C18_Witness ==
    /\ pc = "done"
    /\ result # <<>>
    /\ Len(cycleDetails) >= 2
    /\ \A k \in DOMAIN cycleDetails : cycleDetails[k].timingsSoFar.relativeMarginOfError.inf

\* C20: meanTime of the BenchmarkResult is the mean time per iteration: the
\* total net time of the operation in the run divided by the total number of
\* iterations, also when the cycles are recorded in aggregated form
\* (synchronous mode) with different iteration counts.
C20_MeanTimeIsNetTimePerIteration ==
    (pc = "done" /\ result # <<>>) =>
        result[1].meanTime =
            RatDivInt(state.elapsedNetTime, result[1].iterationCount)

====
